---- MODULE Spec2Model ----
(***************************************************************************)
(* Model of the order book of the matching engine                          *)
(* (package orderbook: OrderBook, PriceLevel; package order: Order).       *)
(*                                                                         *)
(* One OrderBook is modelled.  Its methods run under the book's mutex, so  *)
(* each call is one atomic action.  Orders are heap objects (the Go code   *)
(* passes *order.Order everywhere): `heap` holds every Order built by      *)
(* NewOrder and handed to AddOrder, an order's pointer is its index in     *)
(* heap.                                                                   *)
(*                                                                         *)
(* Prices and quantities are float64 in the source.  Prices are only       *)
(* compared, so they are integers here.  Quantities are added and          *)
(* subtracted (Order.Fill, Order.RemainingQuantity), and a float64 sum or  *)
(* difference is rounded to the nearest value with a 53-bit significand,   *)
(* ties to even.  The model keeps that arithmetic with a significand of    *)
(* MantissaBits bits: a quantity is an integer number of units, and Round  *)
(* is applied to every sum and difference the code computes.               *)
(***************************************************************************)
EXTENDS Integers, Sequences, FiniteSets, TLC

\* ---------------------------------------------------------------- bounds
MaxOrders == 4
MaxCallOrders == 3
MaxSnapOrders == 2
MaxThreads == 2
MaxSvcOrders == 3
MaxLockedOrders == 2
MaxPrice == 2
MantissaBits == 3
\* the order sizes callers submit (all of them exact in MantissaBits bits)
Quantities == {2, 3, 14}
\* the order sizes submitted to the book under concurrent calls
LockedQuantities == {3, 14}
\* the largest amount passed to Order.Fill in the check of Fill alone
MaxFill == 14

\* ------------------------------------------------------- order constants
SideBuy == "buy"
SideSell == "sell"
StatusNew == "new"
StatusFilled == "filled"
StatusCancelled == "cancelled"
StatusPartial == "partial"

\* the symbol the book was constructed with, and the symbols callers use
symbol == "BTC-USD"
Symbols == {"BTC-USD", "ETH-USD"}
Sides == {SideBuy, SideSell}

\* error values returned by the book ("" is a nil error)
NoErr == ""
ErrInvalidSymbol == "invalid symbol"
ErrOrderNotFound == "order not found"
ErrNoBids == "no bids available"
ErrNoAsks == "no asks available"
ErrSymbolNotFound == "symbol not found"

VARIABLES
    heap,        \* Seq of Order objects; index = pointer = position of creation
    orders,      \* ob.orders : map from order ID to *Order (a heap index)
    buyLevels,   \* ob.buyLevels : the linked list of PriceLevel, head first
    sellLevels,  \* ob.sellLevels
    last,        \* the latest call: [op, id, err, order], order being the
                 \* Order the caller holds once the call is back; op is
                 \* "none" for a call that does not come back
    hung,        \* TRUE once an AddOrder call loops forever, the mutex held
    books,       \* s.books : map from symbol to *OrderBook (index in bookHeap)
    bookHeap,    \* the OrderBook objects made by NewOrderBook, as the Service
                 \* sees them: [symbol, orders (the IDs admitted), mutex]
    mutex,       \* s.mutex, a sync.RWMutex: [w (writer or 0), r (readers)]
    calls,       \* per goroutine, the Service call it is in
    issued,      \* the number of orders built so far (IDs are unique)
    obMutex,     \* ob.mutex, the sync.RWMutex of the one book modelled
    obCalls      \* per goroutine, the OrderBook call it is in

bookVars == <<heap, orders, buyLevels, sellLevels, last, hung>>
svcVars == <<books, bookHeap, mutex, calls, issued>>
obVars == <<obMutex, obCalls>>
vars == <<heap, orders, buyLevels, sellLevels, last, hung,
          books, bookHeap, mutex, calls, issued, obMutex, obCalls>>

\* ------------------------------------------------------------ package order

\* order.NewOrder: callers only get an Order for price > 0 and quantity > 0
NewOrder(id, side, sym, price, quantity) ==
    [ID |-> id, Side |-> side, Symbol |-> sym, Price |-> price,
     Quantity |-> quantity, Filled |-> 0, Status |-> StatusNew]

\* float64 arithmetic, scaled down: Round(n) is n rounded to MantissaBits
\* significant bits, ties to the even significand.  BitLen(n) is the number
\* of bits of n > 0 and ulp the weight of the last bit kept.
BitLen(n) == CHOOSE k \in 1..n : 2^(k - 1) <= n /\ n < 2^k

RoundTo(n, ulp) ==
    IF 2 * (n % ulp) > ulp \/ (2 * (n % ulp) = ulp /\ (n \div ulp) % 2 = 1)
    THEN ((n \div ulp) + 1) * ulp
    ELSE (n \div ulp) * ulp

RoundAbs(n) ==
    IF n < 2^MantissaBits THEN n ELSE RoundTo(n, 2^(BitLen(n) - MantissaBits))

Round(n) == IF n < 0 THEN 0 - RoundAbs(0 - n) ELSE RoundAbs(n)

\* Order.RemainingQuantity
RemainingQuantity(o) == Round(o.Quantity - o.Filled)

\* Order.Fill: the new value of the order and whether an error was returned.
\* Filled is increased before the overfill check.
Fill(o, quantity) ==
    IF quantity <= 0 THEN [order |-> o, err |-> TRUE]
    ELSE IF o.Status = StatusCancelled THEN [order |-> o, err |-> TRUE]
    ELSE LET f == Round(o.Filled + quantity) IN
         IF f > o.Quantity
         THEN [order |-> [o EXCEPT !.Filled = f], err |-> TRUE]
         ELSE IF f = o.Quantity
         THEN [order |-> [o EXCEPT !.Filled = f, !.Status = StatusFilled], err |-> FALSE]
         ELSE [order |-> [o EXCEPT !.Filled = f, !.Status = StatusPartial], err |-> FALSE]

\* Order.Cancel
Cancel(o) ==
    IF o.Status = StatusFilled THEN [order |-> o, err |-> TRUE]
    ELSE [order |-> [o EXCEPT !.Status = StatusCancelled], err |-> FALSE]

\* -------------------------------------------------------- package orderbook

min(a, b) == IF a < b THEN a ELSE b

\* slice helpers: append(s[:i], s[i+1:]...) and insertion of a list node
RemoveAt(s, i) == SubSeq(s, 1, i - 1) \o SubSeq(s, i + 1, Len(s))
InsertAt(s, i, e) == SubSeq(s, 1, i - 1) \o <<e>> \o SubSeq(s, i, Len(s))

PriceLevel(price) == [Price |-> price, Orders |-> <<>>]

\* findOrCreateBuyLevel: the levels after the call and the position of the
\* level returned
RECURSIVE WalkBuy(_, _, _)
WalkBuy(levels, price, current) ==
    IF current < Len(levels) /\ price < levels[current + 1].Price
    THEN WalkBuy(levels, price, current + 1)
    ELSE current

\* a level put in front of the list whatever its price
findOrCreateBuyLevelMutant(levels, price) ==
    [levels |-> <<PriceLevel(price)>> \o levels, at |-> 1]

findOrCreateBuyLevel(levels, price) ==
    IF levels = <<>> \/ price > levels[1].Price
    THEN [levels |-> <<PriceLevel(price)>> \o levels, at |-> 1]
    ELSE LET current == WalkBuy(levels, price, 1) IN
         IF levels[current].Price = price
         THEN [levels |-> levels, at |-> current]
         ELSE [levels |-> InsertAt(levels, current + 1, PriceLevel(price)),
               at |-> current + 1]

RECURSIVE WalkSell(_, _, _)
WalkSell(levels, price, current) ==
    IF current < Len(levels) /\ price > levels[current + 1].Price
    THEN WalkSell(levels, price, current + 1)
    ELSE current

findOrCreateSellLevelMutant(levels, price) ==
    [levels |-> <<PriceLevel(price)>> \o levels, at |-> 1]
findOrCreateSellLevel(levels, price) ==
    IF levels = <<>> \/ price < levels[1].Price
    THEN [levels |-> <<PriceLevel(price)>> \o levels, at |-> 1]
    ELSE LET current == WalkSell(levels, price, 1) IN
         IF levels[current].Price = price
         THEN [levels |-> levels, at |-> current]
         ELSE [levels |-> InsertAt(levels, current + 1, PriceLevel(price)),
               at |-> current + 1]

\* addBuyOrder / addSellOrder: append the order to the level found or created
addBuyOrder(levels, p, price) ==
    LET r == findOrCreateBuyLevel(levels, price) IN
    [r.levels EXCEPT ![r.at].Orders = Append(@, p)]

\* the order is put in no level
addSellOrderMutant(levels, p, price) == levels

addSellOrder(levels, p, price) ==
    LET r == findOrCreateSellLevel(levels, price) IN
    [r.levels EXCEPT ![r.at].Orders = Append(@, p)]

\* cleanupEmptyLevels, for one side: drop empty levels from the head only
RECURSIVE cleanupEmptyLevels(_)
cleanupEmptyLevels(levels) ==
    IF levels /= <<>> /\ Len(levels[1].Orders) = 0
    THEN cleanupEmptyLevels(Tail(levels))
    ELSE levels

\* tryMatch, the loop over one level's orders (for i := 0; i < len && ...):
\* both Fill calls are made and their errors are dropped
\* both orders of a match filled by matchQty, o first
FillBoth(h, o, r, matchQty) ==
    [h EXCEPT ![o] = Fill(@, matchQty).order, ![r] = Fill(@, matchQty).order]

\* did one of the two Fill calls of a match return an error
FillFails(h, o, r, matchQty) == Fill(h[o], matchQty).err \/ Fill(h[r], matchQty).err

\* the result m of the rest of a loop, failed if a Fill call before it was
Failing(m, err) == [m EXCEPT !.failed = @ \/ err]

\* failed: some Fill call of the pass returned an error (which nothing reads)
RECURSIVE MatchLevel(_, _, _, _)
RECURSIVE MatchNext(_, _, _, _)
MatchLevel(h, lvOrders, o, i) ==
    IF ~(i <= Len(lvOrders) /\ RemainingQuantity(h[o]) > 0)
    THEN [heap |-> h, Orders |-> lvOrders, failed |-> FALSE]
    ELSE Failing(MatchNext(FillBoth(h, o, lvOrders[i],
                                    min(RemainingQuantity(h[o]),
                                        RemainingQuantity(h[lvOrders[i]]))),
                           lvOrders, o, i),
                 FillFails(h, o, lvOrders[i],
                           min(RemainingQuantity(h[o]), RemainingQuantity(h[lvOrders[i]]))))

\* the end of the loop body: a resting order that is filled leaves the level
MatchNext(h, lvOrders, o, i) ==
    IF h[lvOrders[i]].Status = StatusFilled
    THEN MatchLevel(h, RemoveAt(lvOrders, i), o, i)
    ELSE MatchLevel(h, lvOrders, o, i + 1)

\* tryMatch, the test that ends the loop over the levels of the other side
NoMatchMutant(side, levelPrice, price) == FALSE
NoMatch(side, levelPrice, price) ==
    IF side = SideBuy THEN levelPrice > price ELSE levelPrice < price

\* tryMatch: opp is the list of the opposite side; the result is the heap and
\* that list after matching order o.  A pass over the best level that fills
\* nothing and leaves the level non-empty is repeated as it is, for ever:
\* the result then has hangs = TRUE and the state the loop spins in.
RECURSIVE tryMatch(_, _, _)
RECURSIVE tryMatchNext(_, _, _, _)
tryMatch(h, opp, o) ==
    IF opp = <<>> \/ ~(RemainingQuantity(h[o]) > 0)
    THEN [heap |-> h, levels |-> opp, hangs |-> FALSE, failed |-> FALSE]
    ELSE IF NoMatch(h[o].Side, opp[1].Price, h[o].Price)
    THEN [heap |-> h, levels |-> opp, hangs |-> FALSE, failed |-> FALSE]
    ELSE tryMatchNext(h, opp, o, MatchLevel(h, opp[1].Orders, o, 1))

\* tryMatch after the pass m over the best level: an emptied level is unlinked
tryMatchNext(h, opp, o, m) ==
    IF Len(m.Orders) = 0
    THEN Failing(tryMatch(m.heap, Tail(opp), o), m.failed)
    ELSE IF m.heap = h /\ m.Orders = opp[1].Orders
    THEN [heap |-> h, levels |-> opp, hangs |-> TRUE, failed |-> m.failed]
    ELSE Failing(tryMatch(m.heap, <<[opp[1] EXCEPT !.Orders = m.Orders]>> \o Tail(opp), o),
                 m.failed)

\* removeBuyOrder / removeSellOrder: the first level with the order's price
\* is searched for the order's ID, no other level is
RECURSIVE FirstLevelAt(_, _, _)
FirstLevelAt(levels, price, current) ==
    IF current > Len(levels) THEN 0
    ELSE IF levels[current].Price = price THEN current
    ELSE FirstLevelAt(levels, price, current + 1)

RECURSIVE IndexOf(_, _, _)
IndexOf(s, p, i) ==
    IF i > Len(s) THEN 0
    ELSE IF s[i] = p THEN i
    ELSE IndexOf(s, p, i + 1)

\* the order at the front of the first level taken out, whichever it is
removeOrderMutant(levels, h, p) ==
    IF levels = <<>> \/ levels[1].Orders = <<>> THEN levels
    ELSE [levels EXCEPT ![1].Orders = Tail(@)]

removeOrder(levels, h, p) ==
    LET current == FirstLevelAt(levels, h[p].Price, 1) IN
    IF current = 0 THEN levels
    ELSE LET i == IndexOf(levels[current].Orders, p, 1) IN
         IF i = 0 THEN levels
         ELSE [levels EXCEPT ![current].Orders = RemoveAt(@, i)]

\* AddOrder line "if o.Symbol != ob.symbol": is the order accepted
SymbolOKMutant(o) == TRUE
SymbolOK(o) == o.Symbol = symbol

\* AddOrder line "ob.orders[o.ID] = o"
RegisterMutant(m, id, p) == m
Register(m, id, p) == [k \in DOMAIN m \cup {id} |-> IF k = id THEN p ELSE m[k]]

\* the map lookup "o, exists := ob.orders[orderID]"
Exists(m, id) == id \in DOMAIN m

\* ------------------------------------------------------------- the calls

\* what a call hands back; NoOrder stands for a nil *Order
NoOrder == NewOrder(0, "", "", 0, 0)
Returned(op, id, err, o) == [op |-> op, id |-> id, err |-> err, order |-> o]

\* CancelOrder and GetOrder on a missing key: return fmt.Errorf("order not found")
NotFoundMutant(op, orderID) == Returned(op, orderID, NoErr, NoOrder)
NotFound(op, orderID) == Returned(op, orderID, ErrOrderNotFound, NoOrder)

\* the book after a call, and what the call returned
Outcome(h, m, buy, sell, ret) ==
    [heap |-> h, orders |-> m, buyLevels |-> buy, sellLevels |-> sell,
     ret |-> ret, hangs |-> FALSE]

\* the book an AddOrder call that never returns is stuck in
Hang(h, m, buy, sell) ==
    [heap |-> h, orders |-> m, buyLevels |-> buy, sellLevels |-> sell,
     ret |-> Returned("none", 0, NoErr, NoOrder), hangs |-> TRUE]

\* OrderBook.AddOrder of a fresh order built by NewOrder.  A rejected order
\* is referenced by nothing but the caller: it is handed back, not kept in heap.
AddOrder(side, sym, price, quantity) ==
    LET p == Len(heap) + 1
        o == NewOrder(p, side, sym, price, quantity)
        h0 == Append(heap, o)
    IN IF ~SymbolOK(o)
       THEN Outcome(heap, orders, buyLevels, sellLevels,
                    Returned("add", p, ErrInvalidSymbol, o))
       ELSE LET m == IF side = SideBuy
                     THEN tryMatch(h0, sellLevels, p)
                     ELSE tryMatch(h0, buyLevels, p)
                buy1 == IF side = SideBuy THEN buyLevels ELSE m.levels
                sell1 == IF side = SideBuy THEN m.levels ELSE sellLevels
                rests == m.heap[p].Status /= StatusFilled
                buy2 == IF rests /\ side = SideBuy
                        THEN addBuyOrder(buy1, p, price) ELSE buy1
                sell2 == IF rests /\ side = SideSell
                         THEN addSellOrder(sell1, p, price) ELSE sell1
            IN IF m.hangs
               THEN Hang(m.heap, Register(orders, p, p), buy1, sell1)
               ELSE Outcome(m.heap, Register(orders, p, p),
                            cleanupEmptyLevels(buy2), cleanupEmptyLevels(sell2),
                            Returned("add", p, NoErr, m.heap[p]))

\* OrderBook.CancelOrder: the status is set directly, Order.Cancel is not called
CancelOrder(orderID) ==
    IF ~Exists(orders, orderID)
    THEN Outcome(heap, orders, buyLevels, sellLevels, NotFound("cancel", orderID))
    ELSE LET p == orders[orderID]
             h1 == [heap EXCEPT ![p].Status = StatusCancelled]
             buy1 == IF h1[p].Side = SideBuy
                     THEN removeOrder(buyLevels, h1, p) ELSE buyLevels
             sell1 == IF h1[p].Side = SideSell
                      THEN removeOrder(sellLevels, h1, p) ELSE sellLevels
         IN Outcome(h1, orders, cleanupEmptyLevels(buy1), cleanupEmptyLevels(sell1),
                    Returned("cancel", orderID, NoErr, NoOrder))

\* OrderBook.GetOrder
GetOrder(orderID) ==
    Outcome(heap, orders, buyLevels, sellLevels,
            IF Exists(orders, orderID)
            THEN Returned("get", orderID, NoErr, heap[orders[orderID]])
            ELSE NotFound("get", orderID))

\* GetBestBid / GetBestAsk, the loop "totalQty += o.RemainingQuantity()" over
\* the orders of the head level, a float64 sum
RECURSIVE TotalQty(_, _, _, _)
TotalQty(h, lvOrders, i, totalQty) ==
    IF i > Len(lvOrders) THEN totalQty
    ELSE TotalQty(h, lvOrders, i + 1, Round(totalQty + RemainingQuantity(h[lvOrders[i]])))

\* what GetBestBid / GetBestAsk return: (price, quantity, err)
Best(price, quantity, err) == [price |-> price, quantity |-> quantity, err |-> err]

\* OrderBook.GetBestBid
GetBestBid ==
    IF buyLevels = <<>> \/ Len(buyLevels[1].Orders) = 0
    THEN Best(0, 0, ErrNoBids)
    ELSE Best(buyLevels[1].Price, TotalQty(heap, buyLevels[1].Orders, 1, 0), NoErr)

\* OrderBook.GetBestAsk
GetBestAsk ==
    IF sellLevels = <<>> \/ Len(sellLevels[1].Orders) = 0
    THEN Best(0, 0, ErrNoAsks)
    ELSE Best(sellLevels[1].Price, TotalQty(heap, sellLevels[1].Orders, 1, 0), NoErr)

\* GetOrderBook, the loop "for level := ob.buyLevels; level != nil; level =
\* level.Next": the PriceLevel structs of a list copied into a slice.  The
\* copies hold the same order pointers as the levels.
RECURSIVE CopyLevels(_)
CopyLevels(levels) ==
    IF levels = <<>> THEN <<>> ELSE <<levels[1]>> \o CopyLevels(Tail(levels))

\* OrderBook.GetOrderBook: the OrderBookSnapshot returned
GetOrderBook ==
    [Symbol |-> symbol, Bids |-> CopyLevels(buyLevels), Asks |-> CopyLevels(sellLevels)]

\* ------------------------------------------------------------ the Service

Threads == 1..MaxThreads

\* a sync.RWMutex: w is the goroutine holding it for writing (0: none), r the
\* goroutines holding it for reading
Unlocked == [w |-> 0, r |-> {}]
CanLockMutant(m) == TRUE
\* Lock returns once nobody holds the mutex, RLock once no writer holds it
CanLock(m) == m.w = 0 /\ m.r = {}
CanRLockMutant(m) == TRUE
CanRLock(m) == m.w = 0
Lock(m, t) == [m EXCEPT !.w = t]
RLock(m, t) == [m EXCEPT !.r = @ \cup {t}]
Unlock(m) == [m EXCEPT !.w = 0]
RUnlock(m, t) == [m EXCEPT !.r = @ \ {t}]

\* NewOrderBook, as far as the Service can tell books apart: the symbol, the
\* IDs in ob.orders and ob.mutex
NewOrderBook(sym) == [symbol |-> sym, orders |-> {}, mutex |-> Unlocked]

\* "book, exists := s.books[symbol]"
HasBook(bks, sym) == sym \in DOMAIN bks

\* a goroutine outside the Service, and one that has just entered a method
Idle ==
    [op |-> "none", pc |-> "idle", symbol |-> "", id |-> 0, book |-> 0,
     exists |-> FALSE, left |-> {}, err |-> NoErr]
Enter(op, sym, id) == [Idle EXCEPT !.op = op, !.pc = "Lock", !.symbol = sym, !.id = id]

SymbolNotFoundMutant(c) == [c EXCEPT !.pc = "idle", !.err = NoErr]
\* "if !exists { return fmt.Errorf("symbol not found: %s", symbol) }"
SymbolNotFound(c) == [c EXCEPT !.pc = "idle", !.err = ErrSymbolNotFound]

\* the methods that take the book's mutex for writing
BookWriters == {"AddOrder", "CancelOrder"}
\* the methods that keep s.mutex until they return (defer)
Deferring == {"AddOrder", "GetOrder"}

\* a goroutine calls Service.AddOrder with a new order for sym
CallServiceAddOrder(t) ==
    \E sym \in Symbols :
        /\ calls[t].pc = "idle"
        /\ issued < MaxSvcOrders
        /\ issued' = issued + 1
        /\ calls' = [calls EXCEPT ![t] = Enter("AddOrder", sym, issued + 1)]
        /\ UNCHANGED <<books, bookHeap, mutex>>
        /\ UNCHANGED bookVars
        /\ UNCHANGED obVars

\* a goroutine calls Service.CancelOrder(sym, id), Service.GetOrderBook(sym)
\* or Service.GetOrder(id)
CallService(t) ==
    \E op \in {"CancelOrder", "GetOrderBook", "GetOrder"}, sym \in Symbols, id \in 1..MaxSvcOrders :
        /\ calls[t].pc = "idle"
        /\ op = "GetOrderBook" => id = 1
        /\ op = "GetOrder" => sym = symbol
        /\ calls' = [calls EXCEPT ![t] =
                        Enter(op, IF op = "GetOrder" THEN "" ELSE sym,
                                  IF op = "GetOrderBook" THEN 0 ELSE id)]
        /\ UNCHANGED <<books, bookHeap, mutex, issued>>
        /\ UNCHANGED bookVars
        /\ UNCHANGED obVars

\* Service.AddOrder: s.mutex.Lock()
ServiceLock(t) ==
    /\ calls[t].pc = "Lock"
    /\ calls[t].op = "AddOrder"
    /\ CanLock(mutex)
    /\ mutex' = Lock(mutex, t)
    /\ calls' = [calls EXCEPT ![t].pc = "lookup"]
    /\ UNCHANGED <<books, bookHeap, issued>>
    /\ UNCHANGED bookVars
    /\ UNCHANGED obVars

\* Service.CancelOrder, GetOrderBook, GetOrder: s.mutex.RLock()
ServiceRLock(t) ==
    /\ calls[t].pc = "Lock"
    /\ calls[t].op /= "AddOrder"
    /\ CanRLock(mutex)
    /\ mutex' = RLock(mutex, t)
    /\ calls' = [calls EXCEPT ![t].pc = IF calls[t].op = "GetOrder" THEN "range" ELSE "lookup",
                              ![t].left = IF calls[t].op = "GetOrder" THEN DOMAIN books ELSE {}]
    /\ UNCHANGED <<books, bookHeap, issued>>
    /\ UNCHANGED bookVars
    /\ UNCHANGED obVars

\* Service.AddOrder: "book, exists := s.books[o.Symbol]"
AddOrderLookup(t) ==
    /\ calls[t].pc = "lookup"
    /\ calls[t].op = "AddOrder"
    /\ calls' = [calls EXCEPT
                    ![t].exists = HasBook(books, calls[t].symbol),
                    ![t].book = IF HasBook(books, calls[t].symbol) THEN books[calls[t].symbol] ELSE 0,
                    ![t].pc = IF HasBook(books, calls[t].symbol) THEN "book.Lock" ELSE "create"]
    /\ UNCHANGED <<books, bookHeap, mutex, issued>>
    /\ UNCHANGED bookVars
    /\ UNCHANGED obVars

\* Service.AddOrder: "book = orderbook.NewOrderBook(o.Symbol);
\* s.books[o.Symbol] = book"
AddOrderCreate(t) ==
    /\ calls[t].pc = "create"
    /\ bookHeap' = Append(bookHeap, NewOrderBook(calls[t].symbol))
    /\ books' = [sym \in DOMAIN books \cup {calls[t].symbol} |->
                    IF sym = calls[t].symbol THEN Len(bookHeap) + 1 ELSE books[sym]]
    /\ calls' = [calls EXCEPT ![t].book = Len(bookHeap) + 1, ![t].pc = "book.Lock"]
    /\ UNCHANGED <<mutex, issued>>
    /\ UNCHANGED bookVars
    /\ UNCHANGED obVars

\* Service.CancelOrder, GetOrderBook: "book, exists := s.books[symbol];
\* s.mutex.RUnlock(); if !exists { return ... }"
Lookup(t) ==
    /\ calls[t].pc = "lookup"
    /\ calls[t].op /= "AddOrder"
    /\ mutex' = RUnlock(mutex, t)
    /\ calls' = [calls EXCEPT ![t] =
                    IF HasBook(books, calls[t].symbol)
                    THEN [@ EXCEPT !.exists = TRUE, !.book = books[calls[t].symbol],
                                   !.pc = "book.Lock"]
                    ELSE SymbolNotFound(@)]
    /\ UNCHANGED <<books, bookHeap, issued>>
    /\ UNCHANGED bookVars
    /\ UNCHANGED obVars

\* Service.GetOrder: "for symbol, book := range s.books", in any order; after
\* the last book, "return nil, fmt.Errorf("order not found: %s", orderID)"
GetOrderRange(t) ==
    /\ calls[t].pc = "range"
    /\ IF calls[t].left = {}
       THEN calls' = [calls EXCEPT ![t].pc = "Unlock", ![t].err = ErrOrderNotFound]
       ELSE \E sym \in calls[t].left :
                calls' = [calls EXCEPT ![t].left = @ \ {sym}, ![t].book = books[sym],
                                       ![t].pc = "book.Lock"]
    /\ UNCHANGED <<books, bookHeap, mutex, issued>>
    /\ UNCHANGED bookVars
    /\ UNCHANGED obVars

\* the OrderBook method called: AddOrder returns "invalid symbol" before it
\* locks; AddOrder and CancelOrder then take ob.mutex.Lock(), GetOrder and
\* GetOrderBook ob.mutex.RLock()
BookLock(t) ==
    /\ calls[t].pc = "book.Lock"
    /\ IF calls[t].op = "AddOrder" /\ bookHeap[calls[t].book].symbol /= calls[t].symbol
       THEN /\ calls' = [calls EXCEPT ![t].pc = "Unlock", ![t].err = ErrInvalidSymbol]
            /\ UNCHANGED bookHeap
       ELSE /\ IF calls[t].op \in BookWriters
               THEN /\ CanLock(bookHeap[calls[t].book].mutex)
                    /\ bookHeap' = [bookHeap EXCEPT ![calls[t].book].mutex = Lock(@, t)]
               ELSE /\ CanRLock(bookHeap[calls[t].book].mutex)
                    /\ bookHeap' = [bookHeap EXCEPT ![calls[t].book].mutex = RLock(@, t)]
            /\ calls' = [calls EXCEPT ![t].pc = "book"]
    /\ UNCHANGED <<books, mutex, issued>>
    /\ UNCHANGED bookVars
    /\ UNCHANGED obVars

\* what the OrderBook method returns to the Service
BookReturns(c, b) ==
    IF c.op \in {"AddOrder", "GetOrderBook"} \/ c.id \in b.orders
    THEN [c EXCEPT !.err = NoErr, !.pc = IF c.op \in Deferring THEN "Unlock" ELSE "idle"]
    ELSE IF c.op = "GetOrder"
    THEN [c EXCEPT !.pc = "range"]
    ELSE [c EXCEPT !.err = ErrOrderNotFound, !.pc = "idle"]

\* the body of the OrderBook method under ob.mutex, and its deferred
\* ob.mutex.Unlock() or RUnlock(): AddOrder puts the order in ob.orders
BookBody(t) ==
    /\ calls[t].pc = "book"
    /\ bookHeap' = [bookHeap EXCEPT
                       ![calls[t].book].orders =
                           IF calls[t].op = "AddOrder" THEN @ \cup {calls[t].id} ELSE @,
                       ![calls[t].book].mutex =
                           IF calls[t].op \in BookWriters THEN Unlock(@) ELSE RUnlock(@, t)]
    /\ calls' = [calls EXCEPT ![t] = BookReturns(@, bookHeap[calls[t].book])]
    /\ UNCHANGED <<books, mutex, issued>>
    /\ UNCHANGED bookVars
    /\ UNCHANGED obVars

\* the fewest orders a book has taken in when an AddOrder call on it can stay
\* in tryMatch for ever (buy 0.3, sell 0.9, then buy 0.9 at one price)
HangAfter == 2

\* book.AddOrder for an order whose matching never ends: the goroutine stays
\* in the method, with ob.mutex and s.mutex held.  The book here keeps only
\* the IDs of its orders, so any order sent to a book that holds enough of
\* them may be such an order.
BookHangs(t) ==
    /\ calls[t].pc = "book"
    /\ calls[t].op = "AddOrder"
    /\ Cardinality(bookHeap[calls[t].book].orders) >= HangAfter
    /\ calls' = [calls EXCEPT ![t].pc = "hung"]
    /\ UNCHANGED <<books, bookHeap, mutex, issued>>
    /\ UNCHANGED bookVars
    /\ UNCHANGED obVars

\* Service.AddOrder, GetOrder: the deferred s.mutex.Unlock() or RUnlock()
ServiceUnlock(t) ==
    /\ calls[t].pc = "Unlock"
    /\ mutex' = IF calls[t].op = "AddOrder" THEN Unlock(mutex) ELSE RUnlock(mutex, t)
    /\ calls' = [calls EXCEPT ![t].pc = "idle"]
    /\ UNCHANGED <<books, bookHeap, issued>>
    /\ UNCHANGED bookVars
    /\ UNCHANGED obVars

\* --------------------------------------- the book under concurrent calls

\* The OrderBook methods as goroutines run them: each takes ob.mutex, runs
\* its body statement by statement and releases the mutex when it returns.
\* want is what the call does when it is one atomic step taken at the moment
\* it gets the mutex.
Outside ==
    [op |-> "none", pc |-> "idle", side |-> "", price |-> 0, quantity |-> 0,
     id |-> 0, want |-> 0]

ObWriters == {"AddOrder", "CancelOrder"}
ObReaders == {"GetOrder", "GetBestBid", "GetBestAsk", "GetOrderBook"}

\* the orders in the book or on their way into it
Handed == Len(heap) + Cardinality({t \in Threads : obCalls[t].pc = "Lock" /\ obCalls[t].op = "AddOrder"})

\* what a read method returns in the current state
ReadValue(op, orderID) ==
    CASE op = "GetOrder" -> GetOrder(orderID).ret
      [] op = "GetBestBid" -> GetBestBid
      [] op = "GetBestAsk" -> GetBestAsk
      [] OTHER -> GetOrderBook

\* a goroutine calls ob.AddOrder with an order of the book's symbol
ObCallAddOrder(t) ==
    \E side \in Sides, price \in 1..MaxPrice, quantity \in LockedQuantities :
        /\ obCalls[t].pc = "idle"
        /\ Handed < MaxLockedOrders
        /\ obCalls' = [obCalls EXCEPT ![t] =
                          [Outside EXCEPT !.op = "AddOrder", !.pc = "Lock", !.side = side,
                                          !.price = price, !.quantity = quantity]]
        /\ UNCHANGED <<heap, orders, buyLevels, sellLevels, last, hung, obMutex>>
        /\ UNCHANGED svcVars

\* a goroutine calls ob.CancelOrder(id) or one of the read methods
ObCall(t) ==
    \E op \in {"CancelOrder"} \cup ObReaders, orderID \in 1..MaxLockedOrders :
        /\ obCalls[t].pc = "idle"
        /\ op \notin {"CancelOrder", "GetOrder"} => orderID = 1
        /\ obCalls' = [obCalls EXCEPT ![t] =
                          [Outside EXCEPT !.op = op, !.pc = "Lock",
                                          !.id = IF op \in {"CancelOrder", "GetOrder"}
                                                 THEN orderID ELSE 0]]
        /\ UNCHANGED <<heap, orders, buyLevels, sellLevels, last, hung, obMutex>>
        /\ UNCHANGED svcVars

\* AddOrder, CancelOrder: ob.mutex.Lock()
ObLock(t) ==
    /\ obCalls[t].pc = "Lock"
    /\ obCalls[t].op \in ObWriters
    /\ CanLock(obMutex)
    /\ obMutex' = Lock(obMutex, t)
    /\ obCalls' = [obCalls EXCEPT
                      ![t].pc = IF obCalls[t].op = "AddOrder" THEN "register" ELSE "mark",
                      ![t].want = IF obCalls[t].op = "AddOrder"
                                  THEN AddOrder(obCalls[t].side, symbol, obCalls[t].price,
                                                obCalls[t].quantity)
                                  ELSE CancelOrder(obCalls[t].id)]
    /\ UNCHANGED <<heap, orders, buyLevels, sellLevels, last, hung>>
    /\ UNCHANGED svcVars

\* GetOrder, GetBestBid, GetBestAsk, GetOrderBook: ob.mutex.RLock()
ObRLock(t) ==
    /\ obCalls[t].pc = "Lock"
    /\ obCalls[t].op \in ObReaders
    /\ CanRLock(obMutex)
    /\ obMutex' = RLock(obMutex, t)
    /\ obCalls' = [obCalls EXCEPT ![t].pc = "read",
                                  ![t].want = ReadValue(obCalls[t].op, obCalls[t].id)]
    /\ UNCHANGED <<heap, orders, buyLevels, sellLevels, last, hung>>
    /\ UNCHANGED svcVars

\* AddOrder: "ob.orders[o.ID] = o"
AddRegister(t) ==
    /\ obCalls[t].pc = "register"
    /\ heap' = Append(heap, NewOrder(Len(heap) + 1, obCalls[t].side, symbol,
                                     obCalls[t].price, obCalls[t].quantity))
    /\ orders' = Register(orders, Len(heap) + 1, Len(heap) + 1)
    /\ obCalls' = [obCalls EXCEPT ![t].id = Len(heap) + 1, ![t].pc = "tryMatch"]
    /\ UNCHANGED <<buyLevels, sellLevels, last, hung, obMutex>>
    /\ UNCHANGED svcVars

\* the book after tryMatch with result m; a loop that does not end keeps the
\* goroutine in the method, the mutex held
Matched(t, m) ==
    /\ heap' = m.heap
    /\ hung' = m.hangs
    /\ buyLevels' = IF obCalls[t].side = SideBuy THEN buyLevels ELSE m.levels
    /\ sellLevels' = IF obCalls[t].side = SideBuy THEN m.levels ELSE sellLevels
    /\ obCalls' = [obCalls EXCEPT ![t].pc = IF m.hangs THEN "hung" ELSE "rest"]

\* AddOrder: "if err := ob.tryMatch(o)"
AddTryMatch(t) ==
    /\ obCalls[t].pc = "tryMatch"
    /\ Matched(t, tryMatch(heap, IF obCalls[t].side = SideBuy THEN sellLevels ELSE buyLevels,
                           obCalls[t].id))
    /\ UNCHANGED <<orders, last, obMutex>>
    /\ UNCHANGED svcVars

\* AddOrder: the order that is not Filled is put in its level, then
\* cleanupEmptyLevels, "return nil" and the deferred ob.mutex.Unlock()
AddRest(t) ==
    /\ obCalls[t].pc = "rest"
    /\ buyLevels' = cleanupEmptyLevels(
                        IF heap[obCalls[t].id].Status /= StatusFilled /\ obCalls[t].side = SideBuy
                        THEN addBuyOrder(buyLevels, obCalls[t].id, obCalls[t].price)
                        ELSE buyLevels)
    /\ sellLevels' = cleanupEmptyLevels(
                        IF heap[obCalls[t].id].Status /= StatusFilled /\ obCalls[t].side = SideSell
                        THEN addSellOrder(sellLevels, obCalls[t].id, obCalls[t].price)
                        ELSE sellLevels)
    /\ obMutex' = Unlock(obMutex)
    /\ obCalls' = [obCalls EXCEPT ![t] = Outside]
    /\ UNCHANGED <<heap, orders, last, hung>>
    /\ UNCHANGED svcVars

\* CancelOrder: the lookup, "order not found" with the deferred Unlock, or
\* "o.Status = order.StatusCancelled"
CancelMark(t) ==
    /\ obCalls[t].pc = "mark"
    /\ IF Exists(orders, obCalls[t].id)
       THEN /\ heap' = [heap EXCEPT ![orders[obCalls[t].id]].Status = StatusCancelled]
            /\ obCalls' = [obCalls EXCEPT ![t].pc = "remove"]
            /\ UNCHANGED obMutex
       ELSE /\ obMutex' = Unlock(obMutex)
            /\ obCalls' = [obCalls EXCEPT ![t] = Outside]
            /\ UNCHANGED heap
    /\ UNCHANGED <<orders, buyLevels, sellLevels, last, hung>>
    /\ UNCHANGED svcVars

\* CancelOrder: removeBuyOrder or removeSellOrder, cleanupEmptyLevels,
\* "return nil" and the deferred ob.mutex.Unlock()
CancelRemove(t) ==
    /\ obCalls[t].pc = "remove"
    /\ buyLevels' = cleanupEmptyLevels(
                        IF heap[orders[obCalls[t].id]].Side = SideBuy
                        THEN removeOrder(buyLevels, heap, orders[obCalls[t].id])
                        ELSE buyLevels)
    /\ sellLevels' = cleanupEmptyLevels(
                        IF heap[orders[obCalls[t].id]].Side = SideSell
                        THEN removeOrder(sellLevels, heap, orders[obCalls[t].id])
                        ELSE sellLevels)
    /\ obMutex' = Unlock(obMutex)
    /\ obCalls' = [obCalls EXCEPT ![t] = Outside]
    /\ UNCHANGED <<heap, orders, last, hung>>
    /\ UNCHANGED svcVars

\* the body of a read method, which returns ReadValue of the state it runs
\* in, and its deferred ob.mutex.RUnlock()
ObRead(t) ==
    /\ obCalls[t].pc = "read"
    /\ obMutex' = RUnlock(obMutex, t)
    /\ obCalls' = [obCalls EXCEPT ![t] = Outside]
    /\ UNCHANGED <<heap, orders, buyLevels, sellLevels, last, hung>>
    /\ UNCHANGED svcVars

\* --------------------------------------------------------- specifications

Init ==
    /\ heap = <<>>
    /\ orders = <<>>
    /\ buyLevels = <<>>
    /\ sellLevels = <<>>
    /\ last = Returned("new", 0, NoErr, NoOrder)
    /\ hung = FALSE
    /\ books = <<>>
    /\ bookHeap = <<>>
    /\ mutex = Unlocked
    /\ calls = [t \in Threads |-> Idle]
    /\ issued = 0
    /\ obMutex = Unlocked
    /\ obCalls = [t \in Threads |-> Outside]

\* the book after a call with outcome r
Becomes(r) ==
    /\ hung' = r.hangs
    /\ heap' = r.heap
    /\ orders' = r.orders
    /\ buyLevels' = r.buyLevels
    /\ sellLevels' = r.sellLevels
    /\ UNCHANGED svcVars
    /\ UNCHANGED obVars

OrderIDs == 1..MaxOrders

\* Spec: the book under any sequence of AddOrder and CancelOrder calls.  No
\* call runs on the book while a call that hangs holds its mutex.
DoAddOrder ==
    \E side \in Sides, sym \in Symbols, price \in 1..MaxPrice, quantity \in Quantities :
        /\ ~hung
        /\ Len(heap) < MaxOrders
        /\ Becomes(AddOrder(side, sym, price, quantity))
        /\ UNCHANGED last

DoCancelOrder ==
    \E orderID \in OrderIDs :
        /\ ~hung
        /\ Becomes(CancelOrder(orderID))
        /\ UNCHANGED last

Next == DoAddOrder \/ DoCancelOrder

Spec == Init /\ [][Next]_vars

\* SpecCalls: the same book, each call's return value recorded in last
\* a call is made and what it returns is recorded
Returns(r) == Becomes(r) /\ last' = r.ret

CallAddOrder ==
    \E side \in Sides, sym \in Symbols, price \in 1..MaxPrice, quantity \in Quantities :
        /\ ~hung
        /\ sym = symbol => Len(heap) < MaxCallOrders
        /\ Returns(AddOrder(side, sym, price, quantity))

CallCancelOrder ==
    \E orderID \in OrderIDs :
        /\ ~hung
        /\ Returns(CancelOrder(orderID))

CallGetOrder ==
    \E orderID \in OrderIDs :
        /\ ~hung
        /\ Returns(GetOrder(orderID))

NextCalls == CallAddOrder \/ CallCancelOrder \/ CallGetOrder

SpecCalls == Init /\ [][NextCalls]_vars

\* SpecSnapshot: the book while a caller keeps the value GetOrderBook gave it.
\* last holds that snapshot and, in seen, the orders as they were when the
\* call returned.
Snapshot(snapshot, seen) == [op |-> "book", snapshot |-> snapshot, seen |-> seen]

SnapAddOrder ==
    \E side \in Sides, price \in 1..MaxPrice, quantity \in Quantities :
        /\ ~hung
        /\ Len(heap) < MaxSnapOrders
        /\ Becomes(AddOrder(side, symbol, price, quantity))
        /\ UNCHANGED last

SnapCancelOrder ==
    \E orderID \in 1..MaxSnapOrders :
        /\ ~hung
        /\ Becomes(CancelOrder(orderID))
        /\ UNCHANGED last

SnapGetOrderBook ==
    /\ ~hung
    /\ last' = Snapshot(GetOrderBook, heap)
    /\ UNCHANGED <<heap, orders, buyLevels, sellLevels, hung>>
    /\ UNCHANGED svcVars
    /\ UNCHANGED obVars

\* the *Order that GetOrder returned, as Handler.getOrder holds it once the
\* locks are released: ptr is the order pointed to, seen the fields it had
\* when the call returned
Held(p, seen) == [op |-> "order", ptr |-> p, seen |-> seen]

SnapGetOrder ==
    \E orderID \in 1..MaxSnapOrders :
        /\ ~hung
        /\ last' = IF Exists(orders, orderID)
                   THEN Held(orders[orderID], heap[orders[orderID]])
                   ELSE NotFound("get", orderID)
        /\ UNCHANGED <<heap, orders, buyLevels, sellLevels, hung>>
        /\ UNCHANGED svcVars
        /\ UNCHANGED obVars

NextSnapshot == SnapAddOrder \/ SnapCancelOrder \/ SnapGetOrderBook \/ SnapGetOrder

SpecSnapshot == Init /\ [][NextSnapshot]_vars

\* goroutines calling the Service concurrently, one step of one call at a time
NextService ==
    \E t \in Threads :
        \/ CallServiceAddOrder(t)
        \/ CallService(t)
        \/ ServiceLock(t)
        \/ ServiceRLock(t)
        \/ AddOrderLookup(t)
        \/ AddOrderCreate(t)
        \/ Lookup(t)
        \/ GetOrderRange(t)
        \/ BookLock(t)
        \/ BookBody(t)
        \/ BookHangs(t)
        \/ ServiceUnlock(t)

SpecService == Init /\ [][NextService]_vars

\* the steps of a call of goroutine t once it is inside a Service method: at
\* each position of the call one of them is the step to take
Proceeds(t) ==
    \/ ServiceLock(t)
    \/ ServiceRLock(t)
    \/ BookLock(t)
    \/ AddOrderLookup(t)
    \/ AddOrderCreate(t)
    \/ Lookup(t)
    \/ GetOrderRange(t)
    \/ BookBody(t)
    \/ ServiceUnlock(t)

\* SpecServiceFair: the goroutines under the Go scheduler and sync.RWMutex.
\* A goroutine that can run does run, and a goroutine blocked in Lock or
\* RLock gets the mutex if it is free again and again (a blocked Lock keeps
\* new readers out, a released mutex is handed to the waiters).  Nothing
\* obliges a goroutine to start a call, and nothing ends a matching loop
\* that does not end.
SpecServiceFair == SpecService /\ \A t \in Threads : SF_vars(Proceeds(t))

\* goroutines calling the methods of one OrderBook concurrently
NextLocked ==
    \E t \in Threads :
        \/ ObCallAddOrder(t)
        \/ ObCall(t)
        \/ ObLock(t)
        \/ ObRLock(t)
        \/ AddRegister(t)
        \/ AddTryMatch(t)
        \/ AddRest(t)
        \/ CancelMark(t)
        \/ CancelRemove(t)
        \/ ObRead(t)

SpecLocked == Init /\ [][NextLocked]_vars

\* ------------------------------------------------------------- properties

Range(s) == {s[i] : i \in DOMAIN s}
QueuedIn(levels) == UNION {Range(levels[i].Orders) : i \in DOMAIN levels}
\* the orders held by some level queue of a book with these side lists
Queued(buy, sell) == QueuedIn(buy) \cup QueuedIn(sell)
IsActive(o) == o.Status /= StatusFilled /\ o.Status /= StatusCancelled
BookUnchanged == UNCHANGED <<heap, orders, buyLevels, sellLevels>>

RECURSIVE SumFilled(_, _, _)
SumFilled(h, side, p) ==
    IF p > Len(h) THEN 0
    ELSE (IF h[p].Side = side THEN h[p].Filled ELSE 0) + SumFilled(h, side, p + 1)

\* C1: after any sequence of calls, the quantity filled over all buy orders
\* ever admitted equals the quantity filled over all sell orders ever admitted.
C1_Conservation ==
    ~hung => SumFilled(heap, SideBuy, 1) = SumFilled(heap, SideSell, 1)

\* C2: no order is ever overfilled: 0 <= Filled <= Quantity for every order.
C2_NoOverfill ==
    \A p \in DOMAIN heap : 0 <= heap[p].Filled /\ heap[p].Filled <= heap[p].Quantity

\* C3: once a call has returned, one side holds no order or every queued bid
\* is priced strictly below every queued ask.
C3_NoCrossedBook ==
    ~hung => \A b \in QueuedIn(buyLevels), a \in QueuedIn(sellLevels) :
                 heap[b].Price < heap[a].Price

\* an order is resting: it is in a level queue, active, with quantity left
Resting(h, buy, sell, p) ==
    p \in Queued(buy, sell) /\ IsActive(h[p]) /\ RemainingQuantity(h[p]) > 0

\* C4: of two orders resting on the same side at the same price, the later
\* one's Filled does not increase in a step after which the earlier one is
\* still resting with quantity left.
C4_FIFO ==
    [][\A a, b \in DOMAIN heap :
          ( /\ a < b
            /\ heap[a].Side = heap[b].Side
            /\ heap[a].Price = heap[b].Price
            /\ Resting(heap, buyLevels, sellLevels, a)
            /\ Resting(heap, buyLevels, sellLevels, b)
            /\ Resting(heap', buyLevels', sellLevels', a) )
          => heap'[b].Filled = heap[b].Filled]_vars

\* C5: CancelOrder of an order whose status is Filled returns an error and
\* changes nothing.
C5_CancelFilled ==
    [][\A id \in DOMAIN orders :
          ( /\ last'.op = "cancel"
            /\ last'.id = id
            /\ heap[orders[id]].Status = StatusFilled )
          => (last'.err /= NoErr /\ BookUnchanged)]_vars

\* C6: CancelOrder and GetOrder of an id that was never admitted return the
\* order-not-found error, and the book is left as it was.
C6_UnknownId ==
    [][\A id \in OrderIDs :
          ( /\ id \notin DOMAIN heap
            /\ last'.op \in {"cancel", "get"}
            /\ last'.id = id )
          => (last'.err = ErrOrderNotFound /\ BookUnchanged)]_vars

\* an unknown id was cancelled on a book that holds orders on both sides
C6_Witness ==
    /\ last.op = "cancel"
    /\ last.id \notin DOMAIN heap
    /\ last.err = ErrOrderNotFound
    /\ buyLevels /= <<>>
    /\ sellLevels /= <<>>

\* C7: after CancelOrder succeeds for an order held by a level queue, the
\* order is Cancelled and no level queue of either side holds it.
C7_CancelRemoves ==
    [][\A id \in DOMAIN orders :
          ( /\ last'.op = "cancel"
            /\ last'.id = id
            /\ last'.err = NoErr
            /\ orders[id] \in Queued(buyLevels, sellLevels) )
          => ( /\ heap'[orders[id]].Status = StatusCancelled
               /\ orders[id] \notin Queued(buyLevels', sellLevels') )]_vars

\* the status changes the order state machine allows
Transitions ==
    { <<StatusNew, StatusPartial>>, <<StatusNew, StatusFilled>>,
      <<StatusPartial, StatusFilled>>, <<StatusNew, StatusCancelled>>,
      <<StatusPartial, StatusCancelled>>, <<StatusPartial, StatusPartial>> }

\* C8: Filled and Cancelled are terminal, and an order's status only changes
\* along New -> PartialFill, New|PartialFill -> Filled,
\* New|PartialFill -> Cancelled, PartialFill -> PartialFill.
C8_TerminalStatuses ==
    [][\A p \in DOMAIN heap :
          \/ heap'[p].Status = heap[p].Status
          \/ <<heap[p].Status, heap'[p].Status>> \in Transitions]_vars

\* C9: AddOrder of an order with another symbol than the book's returns the
\* invalid-symbol error, registers nothing, fills nothing and leaves both
\* sides as they were.
C9_SymbolMismatch ==
    [][( /\ last'.op = "add"
         /\ last'.order.Symbol /= symbol )
       => ( /\ last'.err = ErrInvalidSymbol
            /\ BookUnchanged
            /\ ~Exists(orders', last'.order.ID)
            /\ last'.order.Filled = 0
            /\ last'.order.Status = StatusNew )]_vars

\* a buy order of another symbol was rejected although its price crosses the
\* best ask
C9_Witness ==
    /\ last.op = "add"
    /\ last.err = ErrInvalidSymbol
    /\ last.order.Side = SideBuy
    /\ sellLevels /= <<>>
    /\ last.order.Price >= sellLevels[1].Price

\* C10: every order admitted is found by GetOrder under its ID from then on,
\* whatever its status has become.
C10_Queryable ==
    /\ \A p \in DOMAIN heap :
          Exists(orders, heap[p].ID) /\ orders[heap[p].ID] = p
    /\ (last.op = "add" /\ last.err = NoErr) => Exists(orders, last.id)
    /\ (last.op = "get" /\ last.id \in DOMAIN heap)
          => (last.err = NoErr /\ last.order = heap[last.id])

\* GetOrder returned a Filled order while another order is Cancelled
C10_Witness ==
    /\ last.op = "get"
    /\ last.err = NoErr
    /\ last.order.Status = StatusFilled
    /\ \E p \in DOMAIN heap : heap[p].Status = StatusCancelled

\* the active orders held by the level queues of one side
RestingIn(levels) == {p \in QueuedIn(levels) : IsActive(heap[p])}

\* the float64 sum of RemainingQuantity over the orders of set S, added to
\* sum in the order of their admission from order p on
RECURSIVE SumRemaining(_, _, _)
SumRemaining(S, p, sum) ==
    IF p > Len(heap) THEN sum
    ELSE IF p \in S
    THEN SumRemaining(S, p + 1, Round(sum + RemainingQuantity(heap[p])))
    ELSE SumRemaining(S, p + 1, sum)

AtPrice(S, price) == {p \in S : heap[p].Price = price}
HighestPrice(S) == CHOOSE x \in {heap[p].Price : p \in S} : \A q \in S : heap[q].Price <= x
LowestPrice(S) == CHOOSE x \in {heap[p].Price : p \in S} : \A q \in S : heap[q].Price >= x

\* C11: in every state reached by AddOrder and CancelOrder calls, GetBestBid
\* returns the highest price of a resting buy order with the sum of the
\* remaining quantities of all resting buy orders at that price, and
\* GetBestAsk the lowest resting sell price with the sum at that price.
C11_BestPrices ==
    ~hung =>
      /\ RestingIn(buyLevels) /= {} =>
            GetBestBid = Best(HighestPrice(RestingIn(buyLevels)),
                              SumRemaining(AtPrice(RestingIn(buyLevels),
                                                   HighestPrice(RestingIn(buyLevels))), 1, 0),
                              NoErr)
      /\ RestingIn(sellLevels) /= {} =>
            GetBestAsk = Best(LowestPrice(RestingIn(sellLevels)),
                              SumRemaining(AtPrice(RestingIn(sellLevels),
                                                   LowestPrice(RestingIn(sellLevels))), 1, 0),
                              NoErr)

\* C12: GetBestBid fails exactly when no active buy order is resting, and
\* GetBestAsk exactly when no active sell order is resting.
C12_NoLiquidity ==
    ~hung =>
      /\ GetBestBid.err /= NoErr <=> RestingIn(buyLevels) = {}
      /\ GetBestAsk.err /= NoErr <=> RestingIn(sellLevels) = {}

\* the orders of all the levels of one side, best level first
RECURSIVE Flatten(_)
Flatten(levels) ==
    IF levels = <<>> THEN <<>> ELSE levels[1].Orders \o Flatten(Tail(levels))

\* does a resting order at restingPrice cross the limit of an incoming order
Crosses(side, restingPrice, price) ==
    IF side = SideBuy THEN restingPrice <= price ELSE restingPrice >= price

\* the float64 sum, added to sum in matching order, of the remaining
\* quantities of the active orders of queue q that cross an incoming order
RECURSIVE CrossingQty(_, _, _, _, _)
CrossingQty(q, i, side, price, sum) ==
    IF i > Len(q) THEN sum
    ELSE IF IsActive(heap[q[i]]) /\ Crosses(side, heap[q[i]].Price, price)
    THEN CrossingQty(q, i + 1, side, price, Round(sum + RemainingQuantity(heap[q[i]])))
    ELSE CrossingQty(q, i + 1, side, price, sum)

\* the step is an AddOrder call that admitted an order and returned
Admits == ~hung' /\ Len(heap') = Len(heap) + 1
Incoming == heap'[Len(heap')]
Opposite(side) == IF side = SideBuy THEN sellLevels ELSE buyLevels

\* C13: when AddOrder(o) returns, o.Filled = min(o.Quantity, L), L being the
\* remaining quantity, before the call, of the active opposite orders that
\* cross o's price.
C13_MatchQuantity ==
    [][Admits =>
          Incoming.Filled =
              min(Incoming.Quantity,
                  CrossingQty(Flatten(Opposite(Incoming.Side)), 1,
                              Incoming.Side, Incoming.Price, 0))]_vars

\* the active orders of the opposite side that cross an incoming order
CrossedBy(o) ==
    {p \in RestingIn(Opposite(o.Side)) : Crosses(o.Side, heap[p].Price, o.Price)}

\* the levels the opposite side has after the step
OppositeAfter(side) == IF side = SideBuy THEN sellLevels' ELSE buyLevels'

\* C14: an incoming order that exactly consumes the resting orders it crosses
\* is Filled like all of them, is put in no level, and no level is left at
\* the prices consumed.
C14_CompleteMatch ==
    [][( /\ Admits
         /\ CrossedBy(Incoming) /= {}
         /\ CrossingQty(Flatten(Opposite(Incoming.Side)), 1,
                        Incoming.Side, Incoming.Price, 0) = Incoming.Quantity )
       => ( /\ Incoming.Status = StatusFilled
            /\ \A p \in CrossedBy(Incoming) : heap'[p].Status = StatusFilled
            /\ Len(heap') \notin Queued(buyLevels', sellLevels')
            /\ \A i \in DOMAIN OppositeAfter(Incoming.Side) :
                  \A p \in CrossedBy(Incoming) :
                      OppositeAfter(Incoming.Side)[i].Price /= heap[p].Price )]_vars

OwnAfter(side) == IF side = SideBuy THEN buyLevels' ELSE sellLevels'

\* C15: AddOrder of an order that crosses no resting order of the opposite
\* side fills nothing, changes no existing order, leaves the incoming order
\* New with Filled = 0 and puts it at the tail of a level of its price on
\* its own side.
C15_NonCrossing ==
    [][(Admits /\ CrossedBy(Incoming) = {})
       => ( /\ SubSeq(heap', 1, Len(heap)) = heap
            /\ Incoming.Filled = 0
            /\ Incoming.Status = StatusNew
            /\ \E i \in DOMAIN OwnAfter(Incoming.Side) :
                  /\ OwnAfter(Incoming.Side)[i].Price = Incoming.Price
                  /\ OwnAfter(Incoming.Side)[i].Orders /= <<>>
                  /\ OwnAfter(Incoming.Side)[i].Orders[
                         Len(OwnAfter(Incoming.Side)[i].Orders)] = Len(heap') )]_vars

\* the orders of a queue are in the order of their admission
InArrivalOrder(q) == \A i, j \in DOMAIN q : i < j => q[i] < q[j]

\* C16: in every reachable state GetOrderBook returns the bid levels by
\* descending price, the ask levels by ascending price, and the orders of
\* each level in arrival order.
C16_SnapshotOrdering ==
    ~hung =>
      /\ \A i, j \in DOMAIN GetOrderBook.Bids :
            i < j => GetOrderBook.Bids[i].Price >= GetOrderBook.Bids[j].Price
      /\ \A i, j \in DOMAIN GetOrderBook.Asks :
            i < j => GetOrderBook.Asks[i].Price <= GetOrderBook.Asks[j].Price
      /\ \A i \in DOMAIN GetOrderBook.Bids : InArrivalOrder(GetOrderBook.Bids[i].Orders)
      /\ \A i \in DOMAIN GetOrderBook.Asks : InArrivalOrder(GetOrderBook.Asks[i].Orders)

\* the snapshot lists two bid levels of different prices, the worse one
\* created first, and a level of two orders
C16_Witness ==
    /\ ~hung
    /\ Len(GetOrderBook.Bids) = 2
    /\ GetOrderBook.Bids[1].Price > GetOrderBook.Bids[2].Price
    /\ GetOrderBook.Bids[1].Orders[1] > GetOrderBook.Bids[2].Orders[1]
    /\ Len(GetOrderBook.Bids[2].Orders) = 2

\* what a caller reads through a snapshot when the orders are as in h: each
\* level's price and, for each order pointer, the order's fields
ViewLevels(levels, h) ==
    [i \in DOMAIN levels |->
        [Price |-> levels[i].Price,
         Orders |-> [j \in DOMAIN levels[i].Orders |-> h[levels[i].Orders[j]]]]]
View(snapshot, h) ==
    [Bids |-> ViewLevels(snapshot.Bids, h), Asks |-> ViewLevels(snapshot.Asks, h)]

\* C17: what is read through a snapshot GetOrderBook has returned stays what
\* it was when the call returned, whatever AddOrder and CancelOrder calls
\* follow.
C17_SnapshotIsolation ==
    last.op = "book" => View(last.snapshot, heap) = View(last.snapshot, last.seen)

\* some order has been admitted for sym: a book of that symbol holds it
Admitted(sym) ==
    \E b \in DOMAIN bookHeap : bookHeap[b].symbol = sym /\ bookHeap[b].orders /= {}
\* goroutine t reads s.books in Service.CancelOrder or Service.GetOrderBook
LooksUp(t) ==
    /\ calls[t].op \in {"CancelOrder", "GetOrderBook"}
    /\ calls[t].pc = "lookup"
    /\ calls'[t].pc /= "lookup"
HoldsNoLock(t) ==
    /\ mutex.w /= t /\ t \notin mutex.r
    /\ \A b \in DOMAIN bookHeap : bookHeap[b].mutex.w /= t /\ t \notin bookHeap[b].mutex.r

\* C18: when Service.CancelOrder(symbol, id) or Service.GetOrderBook(symbol)
\* looks the symbol up and no order has been admitted for it yet, the call
\* returns the "symbol not found" error, no book is created, the registry and
\* the books are as before and the caller holds no lock.
C18_RegistryNotFound ==
    [][\A t \in Threads :
          LooksUp(t) /\ ~Admitted(calls[t].symbol) =>
              /\ calls'[t].pc = "idle"
              /\ calls'[t].err = ErrSymbolNotFound
              /\ books' = books
              /\ bookHeap' = bookHeap
              /\ HoldsNoLock(t)']_vars

C18_Witness ==
    /\ calls[1].op = "CancelOrder" /\ calls[1].pc = "idle"
    /\ calls[1].err = ErrSymbolNotFound
    /\ calls[2].op = "GetOrderBook" /\ calls[2].pc = "idle"
    /\ calls[2].err = ErrSymbolNotFound
    /\ DOMAIN books = Symbols \ {calls[1].symbol}
    /\ calls[2].symbol = calls[1].symbol

OneBookPerSymbol ==
    \A b1, b2 \in DOMAIN bookHeap : bookHeap[b1].symbol = bookHeap[b2].symbol => b1 = b2
NeverReplaced == \A sym \in DOMAIN books : sym \in DOMAIN books' /\ books'[sym] = books[sym]
\* goroutine t returns from Service.AddOrder
AddOrderReturns(t) ==
    calls[t].op = "AddOrder" /\ calls[t].pc /= "idle" /\ calls'[t].pc = "idle"
Landed(c) ==
    /\ c.err = NoErr
    /\ HasBook(books, c.symbol)
    /\ c.id \in bookHeap[books[c.symbol]].orders

\* C19: Service.AddOrder never fails, whether or not the symbol had a book;
\* over every interleaving of the calls no two OrderBooks are made for one
\* symbol, an entry of s.books is never replaced, and when AddOrder returns
\* its order is in the one book registered for its symbol.
C19_LazyBookCreation ==
    [][/\ OneBookPerSymbol'
       /\ NeverReplaced
       /\ \A t \in Threads : AddOrderReturns(t) => Landed(calls[t])']_vars

C19_Witness ==
    /\ Len(bookHeap) = 1
    /\ Cardinality(bookHeap[1].orders) = 2
    /\ \A t \in Threads : calls[t].op = "AddOrder" /\ calls[t].pc = "idle"
    /\ calls[1].symbol = calls[2].symbol
    /\ calls[1].exists /= calls[2].exists

HoldsRegistry(t) == mutex.w = t \/ t \in mutex.r
HoldsBook(t) ==
    \E b \in DOMAIN bookHeap : bookHeap[b].mutex.w = t \/ t \in bookHeap[b].mutex.r

\* C20: no goroutine ever holds s.mutex and an OrderBook's mutex together:
\* a book lock is never acquired while the registry lock is held, nor the
\* registry lock while a book lock is held.
C20_LockDiscipline == \A t \in Threads : ~(HoldsRegistry(t) /\ HoldsBook(t))

\* goroutine u can take the lock its call is waiting for, if it waits for one
CanProceed(u) ==
    /\ calls[u].pc = "Lock" =>
          IF calls[u].op = "AddOrder" THEN CanLock(mutex) ELSE CanRLock(mutex)
    /\ calls[u].pc = "book.Lock" =>
          IF calls[u].op \in BookWriters
          THEN CanLock(bookHeap[calls[u].book].mutex)
          ELSE CanRLock(bookHeap[calls[u].book].mutex)

\* C21: while a goroutine is inside the book of symbol X in Service.AddOrder,
\* a call for another symbol that has a book (AddOrder, CancelOrder or
\* GetOrderBook) is never kept waiting for a lock.
C21_CrossSymbol ==
    \A t, u \in Threads :
        ( /\ calls[t].op = "AddOrder"
          /\ calls[t].pc = "book"
          /\ calls[u].pc \in {"Lock", "book.Lock"}
          /\ calls[u].symbol /= calls[t].symbol
          /\ HasBook(books, calls[u].symbol) )
        => CanProceed(u)

\* goroutine t is inside an OrderBook method, ob.mutex taken
Inside(t) == obCalls[t].pc \notin {"idle", "Lock"}
Mutating(t) == Inside(t) /\ obCalls[t].op \in ObWriters
\* goroutine t leaves the method's body in this step (or starts to spin in it)
Leaves(t) == Inside(t) /\ obCalls'[t].pc \in {"idle", "hung"}

\* C22: while AddOrder or CancelOrder is inside the book no other call is;
\* every mutation leaves the book as the same call does when it is one atomic
\* step taken at the moment the mutex was acquired, and every read returns
\* what it would have returned at that moment: no read sees the state between
\* two statements of a mutation.
C22_Serialization ==
    [][/\ \A t, u \in Threads : (t /= u /\ Mutating(t)') => ~Inside(u)'
       /\ \A t \in Threads :
             (Leaves(t) /\ obCalls[t].op \in ObWriters) =>
                 /\ heap' = obCalls[t].want.heap
                 /\ orders' = obCalls[t].want.orders
                 /\ buyLevels' = obCalls[t].want.buyLevels
                 /\ sellLevels' = obCalls[t].want.sellLevels
                 /\ hung' = obCalls[t].want.hangs
       /\ \A t \in Threads :
             (Leaves(t) /\ obCalls[t].op \in ObReaders) =>
                 ReadValue(obCalls[t].op, obCalls[t].id) = obCalls[t].want]_vars

\* two read methods are inside the book together, on a book holding orders
C22_Witness ==
    /\ \A t \in Threads : Inside(t) /\ obCalls[t].op \in ObReaders
    /\ obCalls[1].op = "GetOrderBook"
    /\ obCalls[2].op = "GetBestBid"
    /\ buyLevels /= <<>>
    /\ \E p \in DOMAIN heap : heap[p].Status = StatusFilled

UniquePrices(levels) ==
    \A i, j \in DOMAIN levels : levels[i].Price = levels[j].Price => i = j

\* C23: in every state in which no call is hanging, no two levels of the bid
\* list have the same price and no two levels of the ask list have.
C23_UniqueLevels ==
    ~hung => UniquePrices(buyLevels) /\ UniquePrices(sellLevels)

NoEmptyLevel(levels) == \A i \in DOMAIN levels : levels[i].Orders /= <<>>

\* C24: whenever AddOrder or CancelOrder has returned, every level of the bid
\* list and of the ask list, best or not, holds at least one order.
C24_NoEmptyLevel ==
    ~hung => NoEmptyLevel(buyLevels) /\ NoEmptyLevel(sellLevels)

\* C25: whenever AddOrder or CancelOrder has returned, every order in a level
\* queue has status New or PartialFill and a remaining quantity above 0.
C25_ActiveQueues ==
    ~hung => \A p \in Queued(buyLevels, sellLevels) :
                 /\ heap[p].Status \in {StatusNew, StatusPartial}
                 /\ RemainingQuantity(heap[p]) > 0

\* the places <<level, position>> of order p in a list of levels
PlacesIn(levels, p) ==
    {<<i, j>> \in (DOMAIN levels) \X (1..MaxOrders) :
        j \in DOMAIN levels[i].Orders /\ levels[i].Orders[j] = p}
OwnLevels(o) == IF o.Side = SideBuy THEN buyLevels ELSE sellLevels

\* C26: whenever AddOrder or CancelOrder has returned, every order of the id
\* index with status New or PartialFill is at exactly one place of the level
\* queues, on its own side and in a level of its price, and every order in a
\* level queue is in the id index.
C26_IndexConsistency ==
    ~hung =>
      /\ \A id \in DOMAIN orders :
            heap[orders[id]].Status \in {StatusNew, StatusPartial} =>
                /\ Cardinality(PlacesIn(buyLevels, orders[id]))
                     + Cardinality(PlacesIn(sellLevels, orders[id])) = 1
                /\ \E pl \in PlacesIn(OwnLevels(heap[orders[id]]), orders[id]) :
                      OwnLevels(heap[orders[id]])[pl[1]].Price = heap[orders[id]].Price
      /\ \A p \in Queued(buyLevels, sellLevels) :
            Exists(orders, heap[p].ID) /\ orders[heap[p].ID] = p

\* a partly filled order rests in a level that is not the best of its side,
\* while the id index also holds a Filled and a Cancelled order
C26_Witness ==
    /\ ~hung
    /\ \E i \in DOMAIN buyLevels :
          /\ i > 1
          /\ \E j \in DOMAIN buyLevels[i].Orders :
                heap[buyLevels[i].Orders[j]].Status = StatusPartial
    /\ \E id \in DOMAIN orders : heap[orders[id]].Status = StatusFilled
    /\ \E id \in DOMAIN orders : heap[orders[id]].Status = StatusCancelled

\* C27: in every state in which no call is hanging, an order has status
\* Filled exactly when its Filled equals its Quantity, and status PartialFill
\* exactly when 0 < Filled < Quantity.
C27_StatusFromFill ==
    ~hung => \A p \in DOMAIN heap :
                 /\ heap[p].Status = StatusFilled <=> heap[p].Filled = heap[p].Quantity
                 /\ heap[p].Status = StatusPartial <=>
                        (0 < heap[p].Filled /\ heap[p].Filled < heap[p].Quantity)

\* C28: the Filled of a Cancelled order never changes again, and an incoming
\* order that crosses no active order of the opposite side (the only orders
\* it can meet are Cancelled ones) is filled by nothing.
C28_NoFillAfterCancel ==
    [][/\ \A p \in DOMAIN heap :
             heap[p].Status = StatusCancelled => heap'[p].Filled = heap[p].Filled
       /\ (Admits /\ CrossedBy(Incoming) = {}) => Incoming.Filled = 0]_vars

\* the matching the AddOrder call of this step ran: tryMatch of the incoming
\* order, as NewOrder built it, against the opposite side before the call
Matching ==
    tryMatch(Append(heap, NewOrder(Len(heap) + 1, Incoming.Side, Incoming.Symbol,
                                   Incoming.Price, Incoming.Quantity)),
             Opposite(Incoming.Side), Len(heap) + 1)

\* C29: in every AddOrder call reached by AddOrder and CancelOrder calls,
\* no Fill call of the matching loop returns an error.
C29_FillsSucceed == [][Admits => ~Matching.failed]_vars

\* C30: AddOrder never returns nil when a Fill call of its matching has
\* returned an error.
C30_FillErrorsSurface ==
    [][(Admits /\ Matching.failed) => (last'.op = "add" /\ last'.err /= NoErr)]_vars

\* C31: for every order the book can hold and every amount, a Fill call that
\* returns an error leaves the order's Filled and Status as they were.
C31_FillValidatesFirst ==
    \A p \in DOMAIN heap : \A quantity \in -1..MaxFill :
        Fill(heap[p], quantity).err =>
            /\ Fill(heap[p], quantity).order.Filled = heap[p].Filled
            /\ Fill(heap[p], quantity).order.Status = heap[p].Status

\* the step is an AddOrder call that took an order in, returning or not
Arrives == Len(heap') = Len(heap) + 1

\* C32: an admission changes the Filled of a resting order only if that order
\* is on the opposite side at a price that crosses the incoming order's limit
\* (a sell at or below a Buy's price, a buy at or above a Sell's price).
C32_LimitPrice ==
    [][Arrives =>
          \A p \in DOMAIN heap :
              heap'[p].Filled /= heap[p].Filled =>
                  /\ heap[p].Side /= Incoming.Side
                  /\ Crosses(Incoming.Side, heap[p].Price, Incoming.Price)]_vars

\* the last order admitted is a buy that was matched and still wants more,
\* while a sell above its limit is still untouched in the asks
C32_Witness ==
    /\ ~hung
    /\ heap /= <<>>
    /\ heap[Len(heap)].Side = SideBuy
    /\ heap[Len(heap)].Filled > 0
    /\ RemainingQuantity(heap[Len(heap)]) > 0
    /\ \E s \in QueuedIn(sellLevels) :
          /\ heap[s].Price > heap[Len(heap)].Price
          /\ heap[s].Filled = 0

\* is a resting order at price a ahead of one at price b for an incoming
\* order of this side (lower asks first for a Buy, higher bids for a Sell)
Better(side, a, b) == IF side = SideBuy THEN a < b ELSE a > b

\* C33: in one AddOrder call a resting order receives a fill only if every
\* order that was active at a better price on its side ends the call
\* completely filled.
C33_PricePriority ==
    [][Arrives =>
          \A p, q \in RestingIn(Opposite(Incoming.Side)) :
              ( /\ Better(Incoming.Side, heap[p].Price, heap[q].Price)
                /\ heap'[q].Filled /= heap[q].Filled )
              => ( /\ heap'[p].Status = StatusFilled
                   /\ heap'[p].Filled = heap'[p].Quantity )]_vars

\* the last order admitted is a buy that consumed the sell at the lower price
\* and then part of a sell at a higher price
C33_Witness ==
    /\ ~hung
    /\ heap /= <<>>
    /\ heap[Len(heap)].Side = SideBuy
    /\ \E p, q \in 1..(Len(heap) - 1) :
          /\ heap[p].Side = SideSell /\ heap[q].Side = SideSell
          /\ heap[p].Price < heap[q].Price
          /\ heap[p].Status = StatusFilled
          /\ heap[q].Status = StatusPartial
          /\ heap[Len(heap)].Filled = Round(heap[p].Quantity + heap[q].Filled)

\* the levels of a side list as the orders other than p see them: each level
\* that holds one of them, with its price and their queue
RECURSIVE OthersIn(_, _)
OthersIn(levels, p) ==
    IF levels = <<>> THEN <<>>
    ELSE (IF \A i \in DOMAIN levels[1].Orders : levels[1].Orders[i] = p
          THEN <<>>
          ELSE <<[Price |-> levels[1].Price,
                  Orders |-> SelectSeq(levels[1].Orders, LAMBDA x : x /= p)]>>)
         \o OthersIn(Tail(levels), p)

\* C34: a CancelOrder(id) call that returns nil changes nothing of order id
\* but its Status; every other order keeps all its fields, its level and its
\* place among the other orders of that level.
C34_CancelOnlyTarget ==
    [][(last'.op = "cancel" /\ last'.err = NoErr) =>
          /\ \A q \in DOMAIN heap :
                IF q = orders[last'.id]
                THEN heap'[q] = [heap[q] EXCEPT !.Status = heap'[q].Status]
                ELSE heap'[q] = heap[q]
          /\ OthersIn(buyLevels', orders[last'.id]) = OthersIn(buyLevels, orders[last'.id])
          /\ OthersIn(sellLevels', orders[last'.id]) = OthersIn(sellLevels, orders[last'.id])]_vars

\* the last call cancelled an order that stood in front of an active order of
\* the same level
C34_Witness ==
    /\ last.op = "cancel" /\ last.err = NoErr
    /\ heap[orders[last.id]].Status = StatusCancelled
    /\ orders[last.id] \notin Queued(buyLevels, sellLevels)
    /\ \E q \in RestingIn(buyLevels) \cup RestingIn(sellLevels) :
          /\ q > orders[last.id]
          /\ heap[q].Side = heap[orders[last.id]].Side
          /\ heap[q].Price = heap[orders[last.id]].Price

\* C35: every AddOrder call returns: no call is left in a pass of the
\* matching loop that neither fills anything nor removes a level.
C35_AdmissionTerminates == ~hung

\* C36: the Filled and the Status that the caller of GetOrder reads in the
\* value returned are those the order had when the call returned, whatever
\* AddOrder and CancelOrder calls have run since.
C36_GetOrderSnapshot ==
    last.op = "order" =>
        /\ heap[last.ptr].Filled = last.seen.Filled
        /\ heap[last.ptr].Status = last.seen.Status

\* C37: for an order that is already Cancelled, OrderBook.CancelOrder
\* succeeds exactly if Order.Cancel does, the order is Cancelled after either
\* of them, and CancelOrder leaves both side lists as they were.
C37_CancelTwice ==
    [][( /\ last'.op = "cancel"
         /\ Exists(orders, last'.id)
         /\ heap[orders[last'.id]].Status = StatusCancelled )
       => ( /\ (last'.err = NoErr) <=> ~Cancel(heap[orders[last'.id]]).err
            /\ Cancel(heap[orders[last'.id]]).order.Status = StatusCancelled
            /\ heap'[orders[last'.id]].Status = StatusCancelled
            /\ buyLevels' = buyLevels
            /\ sellLevels' = sellLevels )]_vars

\* C38: under fair scheduling every call of a Service method returns: no
\* goroutine stays inside AddOrder, CancelOrder, GetOrder or GetOrderBook
\* for ever, waiting for a lock or otherwise.
C38_EveryCallReturns ==
    \A t \in Threads : (calls[t].pc /= "idle") ~> (calls[t].pc = "idle")

====
